---- MODULE Spec2Model ----
(***************************************************************************)
(* A model of libxl_capabilities.c: the host feature probe, the NUMA       *)
(* topology builder, the guest architecture parser, the capability        *)
(* assembler libxlMakeCapabilities and libxlDomainGetEmulatorType.         *)
(*                                                                         *)
(* The answers of the toolstack (libxl) are held in ctx; every allocation  *)
(* and every call of the capability-object API may fail.  C arrays are     *)
(* 0-based: a loop index i of the source addresses element i + 1 of the    *)
(* sequence that models the array.                                         *)
(***************************************************************************)
EXTENDS Integers, Sequences, FiniteSets, TLC

VARIABLES
    pc,            \* position in the program
    ctx,           \* libxl_ctx: what the toolstack answers
    caps,          \* the virCaps object
    result,        \* what libxlMakeCapabilities returned
    ret,           \* return value of the builder that ran last
    numa_info,     \* libxlCapsInitNuma: answer of libxl_get_numainfo
    cpu_topo,      \* libxlCapsInitNuma: answer of libxl_get_cpu_topology
    cpus,          \* libxlCapsInitNuma: per-node CPU lists (contents)
    nr_cpus_node,  \* libxlCapsInitNuma: per-node counters
    arrays,        \* libxlCapsInitNuma: which of cpus / nr_cpus_node are allocated
    i,             \* loop index of the running function
    lists,         \* heap: the per-node CPU lists, by node
    bitmaps,       \* heap: the sibling bitmaps, by CPU id
    idx,           \* node values used to index cpus / nr_cpus_node
    regex,         \* libxlCapsInitGuests: the compiled pattern
    saveptr,       \* libxlCapsInitGuests: what strtok_r has not yet split
    guest_archs,   \* libxlCapsInitGuests: the entries 0 .. nr_guest_archs - 1
    seen,          \* history: the tokens strtok_r returned, and what each did
    def,           \* libxlDomainGetEmulatorType: the guest definition and its host
    emu,           \* libxlDomainGetEmulatorType: its locals and what it did
    ran            \* history: the builders entered, in order, and what each returned

vars == <<pc, ctx, caps, result, ret, numa_info, cpu_topo, cpus, nr_cpus_node,
          arrays, i, lists, bitmaps, idx, regex, saveptr, guest_archs, seen,
          def, emu, ran>>

-----------------------------------------------------------------------------
(* Bounds of the model *)

MaxNodes == 2
MaxCpus == 2
MaxTokens == 3

-----------------------------------------------------------------------------
(* Constants of the program *)

\* TLC's integers are 32 bits wide and signed.  The unsigned 32-bit fields of
\* the toolstack's records are held as the int with the same bits, so that ~0U
\* is -1 and "int node = cpu_topo[i].node" (line 121) copies the value.

\* ~0U, the value libxl gives a field of an offline or unknown CPU
LIBXL_CPUTOPOLOGY_INVALID_ENTRY == -1
\* ~0U, the size libxl gives a node that is not there
LIBXL_NUMAINFO_INVALID_ENTRY == -1

SeqsUpTo(S, n) == UNION {[1..k -> S] : k \in 0..n}

-----------------------------------------------------------------------------
(* The capability object and the heap *)

\* virCapabilitiesNew: a fresh object, nothing attached
NewCaps == [st |-> "live", host_features |-> <<>>, net_prefix |-> "",
            cells |-> <<>>, guests |-> <<>>]

NoCaps == [NewCaps EXCEPT !.st = "none"]

\* node values as the program sees them (an int), in range or not
NodeFields == (0..(MaxNodes - 1)) \cup {LIBXL_CPUTOPOLOGY_INVALID_ENTRY}
NodeVals == NodeFields
CpuIds == 0..(MaxCpus - 1)

\* a heap object: st is none (never allocated), scratch (the builder holds
\* the only pointer to it), cell (a NUMA cell of the object holds it) or freed;
\* frees counts the times it was freed
NoObject == [st |-> "none", frees |-> 0]

\* VIR_FREE / virBitmapFree of the objects ids of heap h
Release(h, ids) ==
    [o \in DOMAIN h |->
        IF o \in ids THEN [st |-> "freed", frees |-> h[o].frees + 1] ELSE h[o]]

\* the objects of heap h that are allocated and not freed
Live(h) == {o \in DOMAIN h : h[o].st \in {"scratch", "cell"}}

\* the CPU ids of the entries of a list that hold a bitmap
BitmapsOf(list) == {list[k].id : k \in {j \in DOMAIN list : list[j].bm}}

\* virCapabilitiesClearHostNUMACellCPUTopology: the entries' bitmaps are
\* freed and their pointers set to NULL
ClearedList(list) == [k \in DOMAIN list |-> [list[k] EXCEPT !.bm = FALSE]]

\* virCapabilitiesFreeNUMAInfo: every cell of the object is freed, with its
\* CPU list and the bitmaps of its entries
CellNodes(c) == {c.cells[k].id : k \in {j \in DOMAIN c.cells : c.cells[j].has_list}}
CellBitmaps(c) == UNION {BitmapsOf(c.cells[k].cpus) : k \in DOMAIN c.cells}

-----------------------------------------------------------------------------
(* libxlCapsInitNuma *)

SocketCore == {<<0, 0>>, <<0, 1>>, <<1, 0>>, <<0, LIBXL_CPUTOPOLOGY_INVALID_ENTRY>>}
TopoRecs == {[node |-> n, socket |-> sc[1], core |-> sc[2]] :
                n \in NodeFields, sc \in SocketCore}
NodeSizes == {4096, LIBXL_NUMAINFO_INVALID_ENTRY}

\* what a query of the toolstack returns: NULL, or an array and its length
Null == [ok |-> FALSE, data |-> <<>>]
Answers(S, n) == {Null} \cup {[ok |-> TRUE, data |-> d] : d \in SeqsUpTo(S, n)}

nr_nodes == Len(numa_info.data)
nr_cpus == Len(cpu_topo.data)

InRange(node) == node \in 0..(nr_nodes - 1)

\* the record of the CPU the loop is at, and its node as the int the code reads
Cur == cpu_topo.data[i + 1]
CurNode == Cur.node

\* lines 123 and 153: the CPU is skipped
CoreInvalid(t) == t.core = LIBXL_CPUTOPOLOGY_INVALID_ENTRY

\* lines 157-158: entry e of the node's list is a sibling of the CPU with record t
SiblingOfMutant(e, t) == e.core_id = t.core
SiblingOf(e, t) == e.socket_id = t.socket /\ e.core_id = t.core

\* line 164: the node gets no cell
SizeInvalidMutant(size) == FALSE
SizeInvalid(size) == size = LIBXL_NUMAINFO_INVALID_ENTRY

\* the history when the builder entered last returns r
Returned(h, r) == [h EXCEPT ![Len(h)].ret = IF r = 0 THEN "ok" ELSE "failed"]

GuestLocals == <<regex, saveptr, guest_archs, seen>>
EmuLocals == <<def, emu>>

NumaLocals == <<numa_info, cpu_topo, cpus, nr_cpus_node, arrays, i, lists, bitmaps, idx>>

\* lines 90-111: the two queries
NumaQuery ==
    /\ pc = "numa_query"
    /\ ret' = -1
    /\ numa_info' = ctx.numainfo
    /\ IF ~ctx.numainfo.ok \/ Len(ctx.numainfo.data) = 0
       THEN /\ pc' = "numa_cleanup"
            /\ UNCHANGED cpu_topo
       ELSE /\ cpu_topo' = ctx.cputopology
            /\ pc' = IF ~ctx.cputopology.ok \/ Len(ctx.cputopology.data) = 0
                     THEN "numa_cleanup" ELSE "numa_alloc"
    /\ ran' = Append(ran, [step |-> "numa", ret |-> "running"])
    /\ UNCHANGED <<GuestLocals, EmuLocals>>
    /\ UNCHANGED <<ctx, caps, result, cpus, nr_cpus_node, arrays, i, lists, bitmaps, idx>>

\* lines 113-117: the two arrays, zero-filled
NumaAlloc ==
    /\ pc = "numa_alloc"
    /\ \E out \in {"ok", "cpus", "nr_cpus_node"} :
        /\ arrays' = [cpus |-> out # "cpus", nr_cpus_node |-> out = "ok"]
        /\ pc' = IF out = "ok" THEN "numa_pass1" ELSE "numa_cleanup"
    /\ i' = 0
    /\ UNCHANGED <<GuestLocals, EmuLocals, ran>>
    /\ UNCHANGED <<ctx, caps, result, ret, numa_info, cpu_topo, cpus, nr_cpus_node,
                   lists, bitmaps, idx>>

\* line 120: the first loop is over
NumaPass1Done ==
    /\ pc = "numa_pass1"
    /\ i >= nr_cpus
    /\ pc' = "numa_pass2"
    /\ i' = 0
    /\ UNCHANGED <<GuestLocals, EmuLocals, ran>>
    /\ UNCHANGED <<ctx, caps, result, ret, numa_info, cpu_topo, cpus, nr_cpus_node,
                   arrays, lists, bitmaps, idx>>

\* lines 123-124
NumaPass1Skip ==
    /\ pc = "numa_pass1"
    /\ i < nr_cpus
    /\ CoreInvalid(Cur)
    /\ i' = i + 1
    /\ UNCHANGED <<GuestLocals, EmuLocals, ran>>
    /\ UNCHANGED <<pc, ctx, caps, result, ret, numa_info, cpu_topo, cpus, nr_cpus_node,
                   arrays, lists, bitmaps, idx>>

\* lines 126-145, one CPU: the counter, the list grown by one entry, the
\* entry filled, its bitmap.  The code does not compare node with nr_nodes:
\* with node out of range the counter and the list pointer are read and
\* written outside the two arrays, which here is memory that held zeros and
\* that nothing else uses (NumaPass1Crash is the other outcome).
NumaPass1Add ==
    /\ pc = "numa_pass1"
    /\ i < nr_cpus
    /\ ~CoreInvalid(Cur)
    /\ idx' = idx \cup {CurNode}
    /\ nr_cpus_node' = [nr_cpus_node EXCEPT ![CurNode] = @ + 1]
    /\ \E out \in {"ok", "list", "bitmap"} :
        LET entry == [id |-> i, socket_id |-> Cur.socket, core_id |-> Cur.core,
                      siblings |-> {}, bm |-> out = "ok"]
        IN  /\ IF out = "list"
               THEN \* VIR_ALLOC / VIR_REALLOC_N failed: the pointer is as it was
                    UNCHANGED <<cpus, lists, bitmaps>>
               ELSE /\ cpus' = [cpus EXCEPT ![CurNode] = Append(@, entry)]
                    /\ lists' = [lists EXCEPT ![CurNode].st = "scratch"]
                    /\ bitmaps' = IF out = "ok"
                                  THEN [bitmaps EXCEPT ![i].st = "scratch"]
                                  ELSE bitmaps
            /\ pc' = IF out = "ok" THEN "numa_pass1" ELSE "numa_cleanup"
            /\ i' = IF out = "ok" THEN i + 1 ELSE i
    /\ UNCHANGED <<GuestLocals, EmuLocals, ran>>
    /\ UNCHANGED <<ctx, caps, result, ret, numa_info, cpu_topo, arrays>>

\* lines 126-139 with node out of range: the write outside the arrays hits
\* memory the allocator or another object uses, and the process dies
NumaPass1Crash ==
    /\ pc = "numa_pass1"
    /\ i < nr_cpus
    /\ ~CoreInvalid(Cur)
    /\ ~InRange(CurNode)
    /\ idx' = idx \cup {CurNode}
    /\ pc' = "crashed"
    /\ UNCHANGED <<GuestLocals, EmuLocals, ran>>
    /\ UNCHANGED <<ctx, caps, result, ret, numa_info, cpu_topo, cpus, nr_cpus_node,
                   arrays, i, lists, bitmaps>>

\* line 149: the second loop is over
NumaPass2Done ==
    /\ pc = "numa_pass2"
    /\ i >= nr_cpus
    /\ pc' = "numa_emit"
    /\ i' = 0
    /\ UNCHANGED <<GuestLocals, EmuLocals, ran>>
    /\ UNCHANGED <<ctx, caps, result, ret, numa_info, cpu_topo, cpus, nr_cpus_node,
                   arrays, lists, bitmaps, idx>>

\* lines 150-160, one CPU: its bit is set in the bitmap of every entry of its
\* node's list with the same socket and core
NumaPass2Step ==
    /\ pc = "numa_pass2"
    /\ i < nr_cpus
    /\ IF CoreInvalid(Cur)
       THEN UNCHANGED <<cpus, idx>>
       ELSE /\ idx' = idx \cup {CurNode}
            /\ cpus' = [cpus EXCEPT ![CurNode] =
                    [j \in 1..nr_cpus_node[CurNode] |->
                        IF SiblingOf(@[j], Cur)
                        THEN [@[j] EXCEPT !.siblings = @ \cup {i}]
                        ELSE @[j]]]
    /\ i' = i + 1
    /\ UNCHANGED <<GuestLocals, EmuLocals, ran>>
    /\ UNCHANGED <<pc, ctx, caps, result, ret, numa_info, cpu_topo, nr_cpus_node,
                   arrays, lists, bitmaps>>

\* lines 163 and 181: every node was looked at
NumaEmitDone ==
    /\ pc = "numa_emit"
    /\ i >= nr_nodes
    /\ ret' = 0
    /\ pc' = "numa_cleanup"
    /\ UNCHANGED <<GuestLocals, EmuLocals, ran>>
    /\ UNCHANGED <<ctx, caps, result, NumaLocals>>

\* lines 164-165
NumaEmitSkip ==
    /\ pc = "numa_emit"
    /\ i < nr_nodes
    /\ SizeInvalid(numa_info.data[i + 1])
    /\ i' = i + 1
    /\ UNCHANGED <<GuestLocals, EmuLocals, ran>>
    /\ UNCHANGED <<pc, ctx, caps, result, ret, numa_info, cpu_topo, cpus, nr_cpus_node,
                   arrays, lists, bitmaps, idx>>

\* lines 167-178: virCapabilitiesAddHostNUMACell took the list of node i
NumaEmitCell ==
    /\ pc = "numa_emit"
    /\ i < nr_nodes
    /\ ~SizeInvalid(numa_info.data[i + 1])
    /\ caps' = [caps EXCEPT !.cells = Append(@,
                    [id |-> i, mem |-> numa_info.data[i + 1] \div 1024,
                     ncpus |-> nr_cpus_node[i], cpus |-> cpus[i],
                     has_list |-> lists[i].st = "scratch"])]
    /\ lists' = IF lists[i].st = "scratch"
                THEN [lists EXCEPT ![i].st = "cell"] ELSE lists
    /\ bitmaps' = [c \in DOMAIN bitmaps |->
                    IF c \in BitmapsOf(cpus[i])
                    THEN [bitmaps[c] EXCEPT !.st = "cell"] ELSE bitmaps[c]]
    /\ cpus' = [cpus EXCEPT ![i] = <<>>]
    /\ i' = i + 1
    /\ UNCHANGED <<GuestLocals, EmuLocals, ran>>
    /\ UNCHANGED <<pc, ctx, result, ret, numa_info, cpu_topo, nr_cpus_node, arrays, idx>>

\* lines 167-175: virCapabilitiesAddHostNUMACell failed
NumaEmitFail ==
    /\ pc = "numa_emit"
    /\ i < nr_nodes
    /\ ~SizeInvalid(numa_info.data[i + 1])
    /\ bitmaps' = Release(bitmaps, BitmapsOf(cpus[i]))
    /\ cpus' = [cpus EXCEPT ![i] = ClearedList(@)]
    /\ pc' = "numa_cleanup"
    /\ UNCHANGED <<GuestLocals, EmuLocals, ran>>
    /\ UNCHANGED <<ctx, caps, result, ret, numa_info, cpu_topo, nr_cpus_node, arrays,
                   i, lists, idx>>

\* lines 183-195
NumaCleanup ==
    /\ pc = "numa_cleanup"
    /\ IF ret # 0
       THEN LET mine == IF arrays.cpus
                        THEN {n \in 0..(nr_nodes - 1) : lists[n].st = "scratch"}
                        ELSE {}
            IN  /\ lists' = Release(Release(lists, mine), CellNodes(caps))
                /\ bitmaps' = Release(bitmaps, CellBitmaps(caps))
                /\ cpus' = [n \in DOMAIN cpus |-> IF n \in mine THEN <<>> ELSE cpus[n]]
                /\ caps' = [caps EXCEPT !.cells = <<>>]
       ELSE UNCHANGED <<caps, lists, bitmaps, cpus>>
    /\ arrays' = [cpus |-> FALSE, nr_cpus_node |-> FALSE]
    /\ pc' = "numa_ret"
    /\ ran' = Returned(ran, ret)
    /\ UNCHANGED <<GuestLocals, EmuLocals>>
    /\ UNCHANGED <<ctx, result, ret, numa_info, cpu_topo, nr_cpus_node, i, idx>>

NextNuma ==
    \/ NumaQuery \/ NumaAlloc
    \/ NumaPass1Done \/ NumaPass1Skip \/ NumaPass1Add \/ NumaPass1Crash
    \/ NumaPass2Done \/ NumaPass2Step
    \/ NumaEmitDone \/ NumaEmitSkip \/ NumaEmitCell \/ NumaEmitFail
    \/ NumaCleanup

NumaLocalsInit ==
    /\ numa_info = Null
    /\ cpu_topo = Null
    /\ cpus = [n \in NodeVals |-> <<>>]
    /\ nr_cpus_node = [n \in NodeVals |-> 0]
    /\ arrays = [cpus |-> FALSE, nr_cpus_node |-> FALSE]
    /\ i = 0
    /\ lists = [n \in NodeVals |-> NoObject]
    /\ bitmaps = [c \in CpuIds |-> NoObject]
    /\ idx = {}

NoPhysinfo == [ok |-> FALSE, hw_cap0 |-> 0]
NoVersion == [ok |-> FALSE, has_caps |-> FALSE, capabilities |-> <<>>]

NoDef == [os_type |-> "xen", emulator |-> FALSE, exists |-> FALSE,
          run |-> "spawn_error", output |-> <<>>]
NoEmu == [ret |-> "none", cmd |-> FALSE, output |-> FALSE, stats |-> 0, runs |-> 0]

EmuLocalsInit ==
    /\ def = NoDef
    /\ emu = NoEmu

GuestLocalsInit ==
    /\ regex = "none"
    /\ saveptr = <<>>
    /\ guest_archs = <<>>
    /\ seen = <<>>

InitNuma ==
    /\ pc = "numa_query"
    /\ ctx \in [physinfo : {NoPhysinfo},
               numainfo : Answers(NodeSizes, MaxNodes),
               cputopology : Answers(TopoRecs, MaxCpus),
               version_info : {NoVersion}]
    /\ caps = NewCaps
    /\ result = "none"
    /\ ret = 0
    /\ NumaLocalsInit
    /\ GuestLocalsInit
    /\ EmuLocalsInit
    /\ ran = <<>>

SpecNuma == InitNuma /\ [][NextNuma]_vars

-----------------------------------------------------------------------------
(* libxlCapsInitGuests: text *)

\* A C string is the sequence of its characters.  The literals of the source:
Lit_xen == <<"x", "e", "n">>
Lit_hvm == <<"h", "v", "m">>
Lit_x86_32 == <<"x", "8", "6", "_", "3", "2">>
Lit_x86_64 == <<"x", "8", "6", "_", "6", "4">>
Lit_ia64 == <<"i", "a", "6", "4">>
Lit_powerpc64 == <<"p", "o", "w", "e", "r", "p", "c", "6", "4">>
Lit_armv7l == <<"a", "r", "m", "v", "7", "l">>
Lit_aarch64 == <<"a", "a", "r", "c", "h", "6", "4">>
Lit_p == <<"p">>
Lit_be == <<"b", "e">>

\* the size of guest_archs (line 209), which ARRAY_CARDINALITY gives (line 302)
ARRAY_CARDINALITY == 32

Digit == {"0", "1", "2", "3", "4", "5", "6", "7", "8", "9"}

Min(S) == CHOOSE x \in S : \A y \in S : x <= y

\* STRPREFIX(&s[off], lit)
STRPREFIX(s, off, lit) ==
    /\ off >= 0
    /\ off + Len(lit) <= Len(s)
    /\ \A k \in 1..Len(lit) : s[off + k] = lit[k]

\* the offset after the longest run of digits of s that starts at offset off
RECURSIVE SkipDigits(_, _)
SkipDigits(s, off) ==
    IF off < Len(s) /\ s[off + 1] \in Digit THEN SkipDigits(s, off + 1) ELSE off

CharAt(s, off, c) == off < Len(s) /\ s[off + 1] = c

\* the architecture alternatives of XEN_CAP_REGEX, in the order of the pattern
ArchAlternatives == <<Lit_aarch64, Lit_armv7l, Lit_x86_32, Lit_x86_64, Lit_ia64,
                      Lit_powerpc64>>

NoMatch == [ok |-> FALSE, so |-> <<-1, -1, -1, -1>>, eo |-> -1]

\* XEN_CAP_REGEX (line 56) matched at offset so0 of s.  so[k + 1] is
\* subs[k].rm_so and eo is subs[0].rm_eo.  No alternative of a group is a
\* prefix of another and a run of digits ends at a character that is no digit,
\* so the longest match at so0 is the only one.
MatchAt(s, so0) ==
    LET d1 == SkipDigits(s, so0 + 4)
        d2 == SkipDigits(s, d1 + 1)
        a == d2 + 1
        archs == {k \in DOMAIN ArchAlternatives : STRPREFIX(s, a, ArchAlternatives[k])}
        e2 == a + Len(ArchAlternatives[Min(archs)])
        so3 == IF STRPREFIX(s, e2, Lit_p) \/ STRPREFIX(s, e2, Lit_be) THEN e2 ELSE -1
        eo == IF STRPREFIX(s, e2, Lit_p) THEN e2 + 1
              ELSE IF STRPREFIX(s, e2, Lit_be) THEN e2 + 2 ELSE e2
    IN  IF /\ STRPREFIX(s, so0, Lit_xen) \/ STRPREFIX(s, so0, Lit_hvm)
           /\ CharAt(s, so0 + 3, "-")
           /\ d1 > so0 + 4
           /\ CharAt(s, d1, ".")
           /\ d2 > d1 + 1
           /\ CharAt(s, d2, "-")
           /\ archs # {}
        THEN [ok |-> TRUE, so |-> <<so0, so0, a, so3>>, eo |-> eo]
        ELSE NoMatch

\* the offsets regexec tries: the pattern has no ^, so every offset of the token
RegexecStarts(token) == 0..(Len(token) - 1)

\* regexec(&regex, token, 4, subs, 0) (line 264): the leftmost match
Regexec(token) ==
    LET starts == {so0 \in RegexecStarts(token) : MatchAt(token, so0).ok}
    IN  IF starts = {} THEN NoMatch ELSE MatchAt(token, Min(starts))

\* the first position from k on where buf has (delim = TRUE) or has not a
\* space, Len(buf) + 1 if there is none
RECURSIVE Scan(_, _, _)
Scan(buf, k, delim) ==
    IF k > Len(buf) \/ (buf[k] = " ") = delim THEN k ELSE Scan(buf, k + 1, delim)

\* strtok_r(str, " ", &saveptr) on what is left of the buffer: the delimiters
\* in front are skipped; the token runs to the next delimiter or to the end.
\* has is FALSE when strtok_r returns NULL.
StrtokR(buf) ==
    LET first == Scan(buf, 1, FALSE)
        stop == Scan(buf, first, TRUE)
    IN  IF first > Len(buf)
        THEN [has |-> FALSE, token |-> <<>>, rest |-> <<>>]
        ELSE [has |-> TRUE,
              token |-> SubSeq(buf, first, stop - 1),
              rest |-> SubSeq(buf, stop + 1, Len(buf))]

\* lines 266-292: what a token says, from the offsets of the match.  ok is
\* FALSE at the final else (line 291).
Decode(token, subs) ==
    LET hvm == IF STRPREFIX(token, subs[2], Lit_hvm) THEN 1 ELSE 0
        sfx(lit) == subs[4] # -1 /\ STRPREFIX(token, subs[4], lit)
        none == [ok |-> TRUE, hvm |-> hvm, arch |-> "none", pae |-> 0, nonpae |-> 0,
                 ia64_be |-> 0]
    IN  IF STRPREFIX(token, subs[3], Lit_x86_32)
        THEN [none EXCEPT !.arch = "i686",
                          !.pae = IF sfx(Lit_p) THEN 1 ELSE 0,
                          !.nonpae = IF sfx(Lit_p) THEN 0 ELSE 1]
        ELSE IF STRPREFIX(token, subs[3], Lit_x86_64)
        THEN [none EXCEPT !.arch = "x86_64"]
        ELSE IF STRPREFIX(token, subs[3], Lit_ia64)
        THEN [none EXCEPT !.arch = "ia64",
                          !.ia64_be = IF sfx(Lit_be) THEN 1 ELSE 0]
        ELSE IF STRPREFIX(token, subs[3], Lit_powerpc64)
        THEN [none EXCEPT !.arch = "ppc64"]
        ELSE IF STRPREFIX(token, subs[3], Lit_armv7l)
        THEN [none EXCEPT !.arch = "armv7l"]
        ELSE IF STRPREFIX(token, subs[3], Lit_aarch64)
        THEN [none EXCEPT !.arch = "aarch64"]
        ELSE [none EXCEPT !.ok = FALSE]

\* lines 295-299: the index the search loop ends at
FindArch(archs, arch, hvm) ==
    LET hits == {k \in 0..(Len(archs) - 1) :
                    archs[k + 1].arch = arch /\ archs[k + 1].hvm = hvm}
    IN  IF hits = {} THEN Len(archs) ELSE Min(hits)

\* lines 315-320: a flag of the entry after a token with flag new
MergeFlagMutant(old, new) == new
MergeFlag(old, new) == IF new # 0 THEN new ELSE old

\* an entry of guest_archs after memset (line 212)
ZeroArch == [arch |-> "none", hvm |-> 0, pae |-> 0, nonpae |-> 0, ia64_be |-> 0]

\* lines 294-320: guest_archs after a decoded token d
Merge(archs, d) ==
    LET k == FindArch(archs, d.arch, d.hvm)
        grown == IF k = Len(archs) THEN Append(archs, ZeroArch) ELSE archs
    IN  IF k >= ARRAY_CARDINALITY
        THEN archs
        ELSE [grown EXCEPT ![k + 1] =
                [arch |-> d.arch, hvm |-> d.hvm,
                 pae |-> MergeFlag(@.pae, d.pae),
                 nonpae |-> MergeFlag(@.nonpae, d.nonpae),
                 ia64_be |-> MergeFlag(@.ia64_be, d.ia64_be)]]

-----------------------------------------------------------------------------
(* libxlCapsInitGuests: the capability strings of the model *)

Tok_xen_x86_32p == <<"x", "e", "n", "-", "3", ".", "0", "-", "x", "8", "6", "_", "3", "2", "p">>   \* xen-3.0-x86_32p
Tok_xen_x86_32 == <<"x", "e", "n", "-", "3", ".", "0", "-", "x", "8", "6", "_", "3", "2">>   \* xen-3.0-x86_32
Tok_hvm_x86_64 == <<"h", "v", "m", "-", "3", ".", "0", "-", "x", "8", "6", "_", "6", "4">>   \* hvm-3.0-x86_64
Tok_xen_ia64be == <<"x", "e", "n", "-", "3", ".", "0", "-", "i", "a", "6", "4", "b", "e">>   \* xen-3.0-ia64be
Tok_xen_x86_32be == <<"x", "e", "n", "-", "3", ".", "0", "-", "x", "8", "6", "_", "3", "2", "b", "e">>   \* xen-3.0-x86_32be
Tok_junk_before == <<"a", "x", "e", "n", "-", "3", ".", "0", "-", "x", "8", "6", "_", "6", "4">>   \* axen-3.0-x86_64
Tok_junk_after == <<"h", "v", "m", "-", "3", ".", "0", "-", "x", "8", "6", "_", "3", "2", "p", "z">>   \* hvm-3.0-x86_32pz
Tok_no_minor == <<"x", "e", "n", "-", "3", "-", "x", "8", "6", "_", "6", "4">>   \* xen-3-x86_64
Tok_hvm_aarch64 == <<"h", "v", "m", "-", "1", "0", ".", "1", "2", "-", "a", "a", "r", "c", "h", "6", "4">>   \* hvm-10.12-aarch64

TokenPool == {Tok_xen_x86_32p, Tok_xen_x86_32, Tok_hvm_x86_64, Tok_xen_ia64be, Tok_xen_x86_32be, Tok_junk_before, Tok_junk_after, Tok_no_minor}

Str_spaces ==
    <<" ", " ">>
Str_arm_ppc ==
    <<" ", " ", "h", "v", "m", "-", "3", ".", "0", "-", "a", "r", "m", "v", "7", "l", " ", " ", " ", "x", "e", "n", "-", "3", ".", "0", "-", "p", "o", "w", "e", "r", "p", "c", "6", "4", " ">>
Str_aarch64 ==
    Tok_hvm_aarch64
Str_upper ==
    <<"X", "E", "N", "-", "3", ".", "0", "-", "x", "8", "6", "_", "6", "4", " ", "h", "v", "m", "-", "3", ".", "0", "-", "i", "a", "6", "4">>

\* the tokens of ts, a space between two of them
RECURSIVE Join(_)
Join(ts) == IF ts = <<>> THEN <<>>
            ELSE IF Len(ts) = 1 THEN ts[1]
            ELSE ts[1] \o <<" ">> \o Join(Tail(ts))

\* the string of the spec's example
ExampleString == Join(<<Tok_xen_x86_32p, Tok_xen_x86_32, Tok_hvm_x86_64>>)

CapStrings == {Join(ts) : ts \in SeqsUpTo(TokenPool, MaxTokens)}
                \cup {Str_spaces, Str_arm_ppc, Str_aarch64, Str_upper}

\* what libxl_get_version_info returns: NULL, or an info whose capabilities is
\* NULL or a string
VersionInfos ==
    {NoVersion, [ok |-> TRUE, has_caps |-> FALSE, capabilities |-> <<>>]}
        \cup {[ok |-> TRUE, has_caps |-> TRUE, capabilities |-> c] : c \in CapStrings}

-----------------------------------------------------------------------------
(* libxlCapsInitGuests *)

\* line 214
VersionMissing(v) == ~v.ok

\* line 220
CapsMissingMutant(v) == FALSE
CapsMissing(v) == ~v.has_caps

\* line 261: the loop goes on only while guest_archs has a free entry
ArchsFull(archs) == ~(Len(archs) < ARRAY_CARDINALITY)

\* lines 209-233: the version info, the capability string, regcomp.  regcomp
\* of the fixed pattern allocates, and fails when it cannot.
GuestsStart ==
    /\ pc = "guests_start"
    /\ guest_archs' = <<>>
    /\ seen' = <<>>
    /\ IF VersionMissing(ctx.version_info) \/ CapsMissing(ctx.version_info)
       THEN /\ ret' = -1
            /\ pc' = "guests_ret"
            /\ ran' = Append(ran, [step |-> "guests", ret |-> "failed"])
            /\ UNCHANGED <<regex, saveptr>>
       ELSE \E compiled \in BOOLEAN :
            /\ regex' = IF compiled THEN "compiled" ELSE "failed"
            /\ ret' = IF compiled THEN ret ELSE -1
            /\ pc' = IF compiled THEN "guests_parse" ELSE "guests_ret"
            /\ ran' = Append(ran, [step |-> "guests",
                                   ret |-> IF compiled THEN "running" ELSE "failed"])
            /\ saveptr' = IF compiled THEN ctx.version_info.capabilities ELSE saveptr
    /\ UNCHANGED <<ctx, caps, result, NumaLocals, EmuLocals>>

\* lines 260-322, one turn of the loop: the next token, matched, decoded and
\* merged into guest_archs
GuestsParseToken ==
    /\ pc = "guests_parse"
    /\ ~ArchsFull(guest_archs)
    /\ LET tk == StrtokR(saveptr)
           m == Regexec(tk.token)
           d == Decode(tk.token, m.so)
           used == m.ok /\ d.ok
                     /\ FindArch(guest_archs, d.arch, d.hvm) < ARRAY_CARDINALITY
       IN  /\ tk.has
           /\ saveptr' = tk.rest
           /\ guest_archs' = IF m.ok /\ d.ok THEN Merge(guest_archs, d) ELSE guest_archs
           /\ seen' = Append(seen, [token |-> tk.token, used |-> used,
                                    decoded |-> IF used THEN d
                                                ELSE [d EXCEPT !.ok = FALSE]])
    /\ UNCHANGED <<pc, ctx, caps, result, ret, regex, NumaLocals, EmuLocals, ran>>

\* lines 261-262 and 323: no free entry or no token left; regfree
GuestsParseDone ==
    /\ pc = "guests_parse"
    /\ ArchsFull(guest_archs) \/ ~StrtokR(saveptr).has
    /\ regex' = "freed"
    /\ pc' = "guests_emit"
    /\ i' = 0
    /\ UNCHANGED <<ctx, caps, result, ret, saveptr, guest_archs, seen, numa_info,
                   cpu_topo, cpus, nr_cpus_node, arrays, lists, bitmaps, idx,
                   EmuLocals, ran>>

Feature(name, on, toggle) ==
    [name |-> name, default_on |-> on, toggle |-> toggle]

\* lines 355-393: the virCapabilitiesAddGuestFeature calls for entry g, in order
FeatureCallsMutant(g) ==
    (IF g.pae # 0 THEN <<Feature("pae", 1, 0)>> ELSE <<>>)
      \o (IF g.nonpae # 0 THEN <<Feature("nonpae", 1, 0)>> ELSE <<>>)
      \o (IF g.ia64_be # 0 THEN <<Feature("ia64_be", 1, 0)>> ELSE <<>>)
      \o <<Feature("acpi", 1, 1), Feature("apic", 1, 0), Feature("hap", 1, 1)>>
FeatureCalls(g) ==
    (IF g.pae # 0 THEN <<Feature("pae", 1, 0)>> ELSE <<>>)
      \o (IF g.nonpae # 0 THEN <<Feature("nonpae", 1, 0)>> ELSE <<>>)
      \o (IF g.ia64_be # 0 THEN <<Feature("ia64_be", 1, 0)>> ELSE <<>>)
      \o (IF g.hvm # 0
          THEN <<Feature("acpi", 1, 1), Feature("apic", 1, 0), Feature("hap", 1, 1)>>
          ELSE <<>>)

\* lines 327-341: what virCapabilitiesAddGuest is given for entry g ("" is NULL)
GuestArgs(g) ==
    [ostype |-> IF g.hvm # 0 THEN "hvm" ELSE "xen",
     arch |-> g.arch,
     emulator |-> "LIBXL_EXECBIN_DIR/qemu-system-i386",
     loader |-> IF g.hvm # 0 THEN "LIBXL_FIRMWARE_DIR/hvmloader" ELSE "",
     machines |-> <<IF g.hvm # 0 THEN "xenfv" ELSE "xenpv">>,
     domains |-> <<>>,
     features |-> <<>>]

\* lines 330-393: the calls for one entry are virCapabilitiesAllocMachines,
\* virCapabilitiesAddGuest, virCapabilitiesAddGuestDomain and the feature
\* calls.  The guests of the object after the first n of them succeeded:
GuestsAfter(guests, g, n) ==
    IF n < 2 THEN guests
    ELSE Append(guests,
            [GuestArgs(g) EXCEPT
                !.domains = IF n >= 3 THEN <<"xen">> ELSE <<>>,
                !.features = SubSeq(FeatureCalls(g), 1, n - 3)])

NrCalls(g) == 3 + Len(FeatureCalls(g))

\* lines 325-394, one entry: every call succeeds (fail = 0), or call number
\* fail returns NULL and the function returns -1
GuestsEmitGuest ==
    /\ pc = "guests_emit"
    /\ i < Len(guest_archs)
    /\ LET g == guest_archs[i + 1]
       IN \E fail \in 0..NrCalls(g) :
            /\ caps' = [caps EXCEPT !.guests =
                          GuestsAfter(@, g, IF fail = 0 THEN NrCalls(g) ELSE fail - 1)]
            /\ i' = IF fail = 0 THEN i + 1 ELSE i
            /\ pc' = IF fail = 0 THEN "guests_emit" ELSE "guests_ret"
            /\ ret' = IF fail = 0 THEN ret ELSE -1
            /\ ran' = IF fail = 0 THEN ran ELSE Returned(ran, -1)
    /\ UNCHANGED <<ctx, result, GuestLocals, numa_info, cpu_topo, cpus, nr_cpus_node,
                   arrays, lists, bitmaps, idx, EmuLocals>>

\* lines 325 and 396
GuestsEmitDone ==
    /\ pc = "guests_emit"
    /\ i >= Len(guest_archs)
    /\ ret' = 0
    /\ pc' = "guests_ret"
    /\ ran' = Returned(ran, 0)
    /\ UNCHANGED <<ctx, caps, result, GuestLocals, NumaLocals, EmuLocals>>

NextGuests ==
    \/ GuestsStart
    \/ GuestsParseToken \/ GuestsParseDone
    \/ GuestsEmitGuest \/ GuestsEmitDone

InitGuests ==
    /\ pc = "guests_start"
    /\ ctx \in [physinfo : {NoPhysinfo},
               numainfo : {Null},
               cputopology : {Null},
               version_info : VersionInfos]
    /\ caps = NewCaps
    /\ result = "none"
    /\ ret = 0
    /\ NumaLocalsInit
    /\ GuestLocalsInit
    /\ EmuLocalsInit
    /\ ran = <<>>

SpecGuests == InitGuests /\ [][NextGuests]_vars


-----------------------------------------------------------------------------
(* libxlCapsInitHost *)

LIBXL_X86_FEATURE_PAE_MASK == 64

\* a & mask, for a mask of one bit
BitAnd(a, mask) == ((a \div mask) % 2) * mask

\* lines 59-85: the physical info, the "pae" host feature, the net prefix;
\* failed names the call that fails, if one does
HostProbe ==
    /\ pc = "host"
    /\ IF ~ctx.physinfo.ok
       THEN /\ ret' = -1
            /\ UNCHANGED caps
       ELSE LET host_pae == BitAnd(ctx.physinfo.hw_cap0, LIBXL_X86_FEATURE_PAE_MASK)
            IN \E failed \in {"none", "feature", "prefix"} :
                /\ failed = "feature" => host_pae # 0
                /\ caps' = [caps EXCEPT
                      !.host_features = IF host_pae # 0 /\ failed # "feature"
                                        THEN Append(@, "pae") ELSE @,
                      !.net_prefix = IF failed = "none"
                                     THEN "LIBXL_GENERATED_PREFIX_XEN" ELSE @]
                /\ ret' = IF failed = "none" THEN 0 ELSE -1
    /\ pc' = "host_ret"
    /\ ran' = Append(ran, [step |-> "host", ret |-> IF ret' = 0 THEN "ok" ELSE "failed"])
    /\ UNCHANGED <<ctx, result, NumaLocals, GuestLocals, EmuLocals>>

-----------------------------------------------------------------------------
(* libxlMakeCapabilities *)

\* lines 411, 414, 417: the builder failed
BuilderFailedMutant(r) == FALSE
BuilderFailed(r) == r < 0

\* lines 405-409: virCapabilitiesNew
MakeNew ==
    /\ pc = "make_new"
    /\ \E ok \in BOOLEAN :
        /\ caps' = IF ok THEN NewCaps ELSE caps
        /\ result' = IF ok THEN result ELSE "NULL"
        /\ pc' = IF ok THEN "host" ELSE "done"
    /\ UNCHANGED <<ctx, ret, NumaLocals, GuestLocals, EmuLocals, ran>>

\* lines 411-412
MakeAfterHost ==
    /\ pc = "host_ret"
    /\ pc' = IF BuilderFailed(ret) THEN "make_error" ELSE "numa_query"
    /\ UNCHANGED <<ctx, caps, result, ret, NumaLocals, GuestLocals, EmuLocals, ran>>

\* lines 414-415
MakeAfterNuma ==
    /\ pc = "numa_ret"
    /\ pc' = IF BuilderFailed(ret) THEN "make_error" ELSE "guests_start"
    /\ UNCHANGED <<ctx, caps, result, ret, NumaLocals, GuestLocals, EmuLocals, ran>>

\* lines 417-420
MakeAfterGuests ==
    /\ pc = "guests_ret"
    /\ pc' = IF BuilderFailed(ret) THEN "make_error" ELSE "done"
    /\ result' = IF BuilderFailed(ret) THEN result ELSE "caps"
    /\ UNCHANGED <<ctx, caps, ret, NumaLocals, GuestLocals, EmuLocals, ran>>

\* virObjectUnref of the only reference: the object is disposed of, with its
\* host features, its NUMA cells (their CPU lists and bitmaps) and its guests
Disposed(c) == [NoCaps EXCEPT !.st = "released"]

\* lines 422-424
MakeError ==
    /\ pc = "make_error"
    /\ lists' = Release(lists, CellNodes(caps))
    /\ bitmaps' = Release(bitmaps, CellBitmaps(caps))
    /\ caps' = Disposed(caps)
    /\ result' = "NULL"
    /\ pc' = "done"
    /\ UNCHANGED <<ctx, ret, numa_info, cpu_topo, cpus, nr_cpus_node, arrays, i, idx,
                   GuestLocals, EmuLocals, ran>>

NextMake ==
    \/ MakeNew \/ MakeAfterHost \/ MakeAfterNuma \/ MakeAfterGuests \/ MakeError

Next == NextMake \/ HostProbe \/ NextNuma \/ NextGuests

\* the answers of the toolstack under which the whole assembly is explored
MakePhysinfos == {NoPhysinfo, [ok |-> TRUE, hw_cap0 |-> 64], [ok |-> TRUE, hw_cap0 |-> 191]}
MakeTopoRecs ==
    {[node |-> 0, socket |-> 0, core |-> 0],
     [node |-> 1, socket |-> 0, core |-> 0],
     [node |-> LIBXL_CPUTOPOLOGY_INVALID_ENTRY, socket |-> 0, core |-> 0],
     [node |-> 0, socket |-> 0, core |-> LIBXL_CPUTOPOLOGY_INVALID_ENTRY]}
MakeVersionInfos ==
    {NoVersion, [ok |-> TRUE, has_caps |-> FALSE, capabilities |-> <<>>]}
        \cup {[ok |-> TRUE, has_caps |-> TRUE, capabilities |-> c] :
                c \in {<<>>, ExampleString, Str_upper}}

Init ==
    /\ pc = "make_new"
    /\ ctx \in [physinfo : MakePhysinfos,
               numainfo : Answers(NodeSizes, MaxNodes),
               cputopology : Answers(MakeTopoRecs, MaxCpus),
               version_info : MakeVersionInfos]
    /\ caps = NoCaps
    /\ result = "none"
    /\ ret = 0
    /\ NumaLocalsInit
    /\ GuestLocalsInit
    /\ EmuLocalsInit
    /\ ran = <<>>

Spec == Init /\ [][Next]_vars


-----------------------------------------------------------------------------
(* libxlDomainGetEmulatorType *)

\* LIBXL_QEMU_DM_STR (line 427), as a sequence of characters
LIBXL_QEMU_DM_STR ==
    <<"O", "p", "t", "i", "o", "n", "s", " ", "s", "p", "e", "c", "i", "f",
      "i", "c", " ", "t", "o", " ", "t", "h", "e", " ", "X", "e", "n", " ",
      "v", "e", "r", "s", "i", "o", "n", ":">>

\* what an emulator may print for -help: nothing; the help text of the
\* traditional qemu-dm, which holds the marker; the help text of an upstream
\* qemu, which does not; and a text that holds the marker without its colon
Help_traditional ==
    <<"q", "e", "m", "u", "-", "d", "m", "\n", "O", "p", "t", "i", "o",
      "n", "s", " ", "s", "p", "e", "c", "i", "f", "i", "c", " ", "t", "o",
      " ", "t", "h", "e", " ", "X", "e", "n", " ", "v", "e", "r", "s", "i",
      "o", "n", ":", "\n", "-", "d", "o", "m", "i", "d">>
Help_upstream ==
    <<"q", "e", "m", "u", "\n", "S", "t", "a", "n", "d", "a", "r", "d",
      " ", "o", "p", "t", "i", "o", "n", "s", ":">>
Help_no_colon ==
    <<"O", "p", "t", "i", "o", "n", "s", " ", "s", "p", "e", "c", "i", "f",
      "i", "c", " ", "t", "o", " ", "t", "h", "e", " ", "X", "e", "n", " ",
      "v", "e", "r", "s", "i", "o", "n">>
HelpTexts == {<<>>, Help_traditional, Help_upstream, Help_no_colon}

\* strstr(haystack, needle) is not NULL
Strstr(haystack, needle) ==
    \E off \in 0..(Len(haystack) - Len(needle)) : STRPREFIX(haystack, off, needle)

\* line 446: virCommandRun(cmd, NULL) < 0; without a place for the exit
\* status, an exit status that is not 0 is an error too
RunFailedMutant(run) == run = "spawn_error"
RunFailed(run) == run # "ok"

\* the guest definitions and hosts of the model: the OS type, whether
\* def->emulator is set, what virFileExists answers, how the run of the
\* emulator ends, and what it prints
Defs == [os_type : {"hvm", "xen", "linux"},
         emulator : BOOLEAN,
         exists : BOOLEAN,
         run : {"spawn_error", "exit_nonzero", "ok"},
         output : HelpTexts]

\* lines 432-437
EmuStart ==
    /\ pc = "emu_start"
    /\ emu' = [emu EXCEPT !.ret = "QEMU_XEN"]
    /\ pc' = IF def.os_type = "hvm" /\ def.emulator THEN "emu_exists" ELSE "emu_cleanup"
    /\ UNCHANGED <<ctx, caps, result, ret, NumaLocals, GuestLocals, def, ran>>

\* lines 438-439
EmuExists ==
    /\ pc = "emu_exists"
    /\ emu' = [emu EXCEPT !.stats = @ + 1]
    /\ pc' = IF def.exists THEN "emu_run" ELSE "emu_cleanup"
    /\ UNCHANGED <<ctx, caps, result, ret, NumaLocals, GuestLocals, def, ran>>

\* lines 441-447
EmuRun ==
    /\ pc = "emu_run"
    /\ emu' = [emu EXCEPT !.runs = @ + 1, !.cmd = TRUE, !.output = ~RunFailed(def.run)]
    /\ pc' = IF RunFailed(def.run) THEN "emu_cleanup" ELSE "emu_scan"
    /\ UNCHANGED <<ctx, caps, result, ret, NumaLocals, GuestLocals, def, ran>>

\* lines 449-450
EmuScan ==
    /\ pc = "emu_scan"
    /\ emu' = [emu EXCEPT !.ret = IF Strstr(def.output, LIBXL_QEMU_DM_STR)
                                  THEN "QEMU_XEN_TRADITIONAL" ELSE @]
    /\ pc' = "emu_cleanup"
    /\ UNCHANGED <<ctx, caps, result, ret, NumaLocals, GuestLocals, def, ran>>

\* lines 454-457
EmuCleanup ==
    /\ pc = "emu_cleanup"
    /\ emu' = [emu EXCEPT !.cmd = FALSE, !.output = FALSE]
    /\ pc' = "emu_ret"
    /\ UNCHANGED <<ctx, caps, result, ret, NumaLocals, GuestLocals, def, ran>>

NextEmu == EmuStart \/ EmuExists \/ EmuRun \/ EmuScan \/ EmuCleanup

InitEmu ==
    /\ pc = "emu_start"
    /\ ctx = [physinfo |-> NoPhysinfo, numainfo |-> Null, cputopology |-> Null,
              version_info |-> NoVersion]
    /\ caps = NoCaps
    /\ result = "none"
    /\ ret = 0
    /\ NumaLocalsInit
    /\ GuestLocalsInit
    /\ def \in Defs
    /\ emu = NoEmu
    /\ ran = <<>>

SpecEmu == InitEmu /\ [][NextEmu]_vars

-----------------------------------------------------------------------------
(* Properties of libxlCapsInitNuma, checked under SpecNuma *)

NumaSucceeded == pc = "numa_ret" /\ ret = 0
NumaFailed == pc = "numa_ret" /\ ret # 0

\* the topology record the toolstack gave for CPU c
Topo(c) == ctx.cputopology.data[c + 1]

\* the emitted CpuInfo entries, each with the id of the cell it is in
Emitted ==
    UNION {{[node |-> caps.cells[k].id, cpu |-> caps.cells[k].cpus[j]] :
                j \in DOMAIN caps.cells[k].cpus} : k \in DOMAIN caps.cells}

\* C2: after a successful NUMA build, for any two emitted CPUs A and B, A is in
\* B's siblings iff B is in A's siblings iff A and B are of the same node and
\* have the same socket and core, in the entries and in the toolstack's records;
\* every emitted CPU is in its own siblings, and a siblings set holds no CPU of
\* another node and no CPU whose core entry is invalid.
C2_SiblingsSymmetricExact ==
    NumaSucceeded =>
        /\ \A A \in Emitted : \A B \in Emitted :
            /\ (A.cpu.id \in B.cpu.siblings) = (B.cpu.id \in A.cpu.siblings)
            /\ (A.cpu.id \in B.cpu.siblings) =
                    (/\ A.node = B.node
                     /\ A.cpu.socket_id = B.cpu.socket_id
                     /\ A.cpu.core_id = B.cpu.core_id)
            /\ (A.cpu.id \in B.cpu.siblings) =
                    (/\ Topo(A.cpu.id).node = Topo(B.cpu.id).node
                     /\ Topo(A.cpu.id).socket = Topo(B.cpu.id).socket
                     /\ Topo(A.cpu.id).core = Topo(B.cpu.id).core)
        /\ \A A \in Emitted :
            /\ A.cpu.id \in A.cpu.siblings
            /\ \A c \in A.cpu.siblings :
                /\ c \in 0..(nr_cpus - 1)
                /\ Topo(c).node = A.node
                /\ Topo(c).core # LIBXL_CPUTOPOLOGY_INVALID_ENTRY

\* C2 witness: a successful build emitted two CPUs that are siblings of each other
C2_Witness ==
    /\ NumaSucceeded
    /\ \E A \in Emitted : \E B \in Emitted :
        /\ A.cpu.id # B.cpu.id
        /\ B.cpu.id \in A.cpu.siblings

\* the nodes the toolstack reported with a size that is not the sentinel
ValidNodes == {n \in 0..(nr_nodes - 1) :
                  numa_info.data[n + 1] # LIBXL_NUMAINFO_INVALID_ENTRY}

\* the CPUs with a valid core entry that report node n
CpusOfNode(n) == {c \in 0..(nr_cpus - 1) :
                     /\ Topo(c).core # LIBXL_CPUTOPOLOGY_INVALID_ENTRY
                     /\ Topo(c).node = n}

ListIds(list) == {list[j].id : j \in DOMAIN list}

\* C3: after a successful NUMA build the cells are exactly the nodes of valid
\* size, one cell each, in node order, with id the node index; the CPU list of
\* a cell holds exactly the CPUs with a valid core entry that report that node,
\* each once; so such a CPU of a valid-size node is in exactly one cell, and no
\* CPU of an invalid-size node or with an invalid core entry is in any cell.
C3_CellsExact ==
    NumaSucceeded =>
        /\ {caps.cells[k].id : k \in DOMAIN caps.cells} = ValidNodes
        /\ Len(caps.cells) = Cardinality(ValidNodes)
        /\ \A k \in DOMAIN caps.cells : \A m \in DOMAIN caps.cells :
                k < m => caps.cells[k].id < caps.cells[m].id
        /\ \A k \in DOMAIN caps.cells :
            /\ ListIds(caps.cells[k].cpus) = CpusOfNode(caps.cells[k].id)
            /\ Len(caps.cells[k].cpus) = Cardinality(CpusOfNode(caps.cells[k].id))
            /\ caps.cells[k].ncpus = Len(caps.cells[k].cpus)
        /\ \A c \in 0..(nr_cpus - 1) :
            Cardinality({k \in DOMAIN caps.cells : c \in ListIds(caps.cells[k].cpus)})
                = IF /\ Topo(c).core # LIBXL_CPUTOPOLOGY_INVALID_ENTRY
                     /\ Topo(c).node \in ValidNodes
                  THEN 1 ELSE 0

\* C3 witness: a successful build over a node of invalid size that a CPU with
\* a valid core reports, and a node of valid size with a CPU in its cell
C3_Witness ==
    /\ NumaSucceeded
    /\ \E n \in 0..(nr_nodes - 1) : n \notin ValidNodes /\ CpusOfNode(n) # {}
    /\ \E k \in DOMAIN caps.cells : caps.cells[k].cpus # <<>>

\* C7: whenever the NUMA builder returns failure, the capability object holds no
\* NUMA cell, and no CPU list and no sibling bitmap that the builder allocated and
\* did not hand to a cell is left allocated or was freed twice.
C7_FailureUnwindsAll ==
    NumaFailed =>
        /\ caps.cells = <<>>
        /\ \A n \in DOMAIN lists : lists[n].st # "scratch" /\ lists[n].frees <= 1
        /\ \A c \in DOMAIN bitmaps : bitmaps[c].st # "scratch" /\ bitmaps[c].frees <= 1

\* C11: the two passes index the per-node arrays cpus and nr_cpus_node with
\* node values in 0 .. nr_nodes - 1 only.
C11_IndicesInRange == \A n \in idx : InRange(n)

\* C12: when the NUMA builder returns success, every CPU list that pass 1
\* allocated, and every sibling bitmap of its entries, is held by a cell of the
\* object or was freed: none is left allocated with no owner.
C12_NoListLeftOnSuccess ==
    NumaSucceeded =>
        /\ \A n \in DOMAIN lists : lists[n].st # "scratch"
        /\ \A c \in DOMAIN bitmaps : bitmaps[c].st # "scratch"

-----------------------------------------------------------------------------
(* Properties of libxlCapsInitGuests, checked under SpecGuests *)

Range(f) == {f[k] : k \in DOMAIN f}

\* what a token of the string is to the parser: whether the pattern is found
\* in it, and what the code reads from the match
TokenMatches(token) ==
    LET m == Regexec(token) IN m.ok /\ Decode(token, m.so).ok
TokenSays(token) == Decode(token, Regexec(token).so)

Key(x) == <<x.arch, x.hvm>>

Bit(b) == IF b THEN 1 ELSE 0

\* guest_archs after the example string
ExampleArchs ==
    <<[arch |-> "i686", hvm |-> 0, pae |-> 1, nonpae |-> 1, ia64_be |-> 0],
      [arch |-> "x86_64", hvm |-> 1, pae |-> 0, nonpae |-> 0, ia64_be |-> 0]>>

ParsedAll == pc \in {"guests_emit", "guests_ret"} /\ regex = "freed"

\* the parse loop is running, or has just ended
Parsing == pc = "guests_parse" \/ (pc = "guests_emit" /\ i = 0)

\* C4: at every point of the parse no two entries of guest_archs have the
\* same (arch, hvm), the entries are the keys of the matching tokens seen so
\* far, and each flag of an entry is the OR of that flag over the matching
\* tokens seen so far with the entry's key (seen holds, for each token the
\* loop took, whether it matched and what lines 266-292 read from it); the
\* example string leaves exactly (x86_32, PV, pae, nonpae) and (x86_64, HVM).
C4_OneProfilePerKeyFlagsOr ==
    Parsing =>
      LET says == [j \in DOMAIN seen |-> seen[j].decoded]
          matching == {j \in DOMAIN seen : seen[j].used}
      IN
        /\ \A a \in DOMAIN guest_archs : \A b \in DOMAIN guest_archs :
                Key(guest_archs[a]) = Key(guest_archs[b]) => a = b
        /\ {Key(guest_archs[k]) : k \in DOMAIN guest_archs}
                = {Key(says[j]) : j \in matching}
        /\ \A k \in DOMAIN guest_archs :
             LET g == guest_archs[k]
                 with == {says[j] : j \in {m \in matching : Key(says[m]) = Key(g)}}
             IN  /\ g.pae = Bit(\E t \in with : t.pae = 1)
                 /\ g.nonpae = Bit(\E t \in with : t.nonpae = 1)
                 /\ g.ia64_be = Bit(\E t \in with : t.ia64_be = 1)
        /\ (ParsedAll /\ ctx.version_info.capabilities = ExampleString)
                => guest_archs = ExampleArchs

\* C4 witness: the example string is parsed; the second token, which has no
\* PAE suffix, was merged into the entry the first one made
C4_Witness ==
    /\ Parsing /\ ParsedAll
    /\ ctx.version_info.capabilities = ExampleString
    /\ Len(seen) = 3
    /\ guest_archs[1].pae = 1 /\ guest_archs[1].nonpae = 1

\* the keys of the matching tokens of ts, each once, in the order in which
\* they first occur
RECURSIVE FirstKeys(_)
FirstKeys(ts) ==
    IF ts = <<>> THEN <<>>
    ELSE LET front == FirstKeys(SubSeq(ts, 1, Len(ts) - 1))
             last == ts[Len(ts)]
         IN  IF TokenMatches(last) /\ Key(TokenSays(last)) \notin Range(front)
             THEN Append(front, Key(TokenSays(last)))
             ELSE front

\* the tokens of a string, by strtok_r
RECURSIVE Tokens(_)
Tokens(buf) ==
    LET tk == StrtokR(buf)
    IN  IF tk.has THEN <<tk.token>> \o Tokens(tk.rest) ELSE <<>>

GuestsSucceeded == pc = "guests_ret" /\ ret = 0

HasFeature(g, f) ==
    /\ f \in Range(g.features)
    /\ \A k \in DOMAIN g.features : g.features[k].name = f.name => g.features[k] = f
    /\ Cardinality({k \in DOMAIN g.features : g.features[k].name = f.name}) = 1

Lacks(g, name) == \A k \in DOMAIN g.features : g.features[k].name # name

\* C6: when the parser succeeds, the guests of the object are one per retained
\* entry, in the order in which the keys first occur in the string, and guest k
\* is what entry k says: HVM, "xenfv" and the hvmloader path if hvm, otherwise
\* XEN, "xenpv" and no loader; "pae", "nonpae", "ia64_be" (default on, not
\* toggleable) iff the entry's flag; "acpi" (toggleable), "apic" (not),
\* "hap" (toggleable) iff hvm.
C6_GuestsFromProfiles ==
    GuestsSucceeded =>
      LET keys == FirstKeys(Tokens(ctx.version_info.capabilities))
      IN
        /\ Len(caps.guests) = Len(guest_archs)
        /\ Len(caps.guests) = Len(keys)
        /\ \A k \in DOMAIN caps.guests :
            LET g == caps.guests[k]
                a == guest_archs[k]
            IN  /\ <<g.arch, Bit(g.ostype = "hvm")>> = keys[k]
                /\ g.arch = a.arch
                /\ g.ostype = IF a.hvm = 1 THEN "hvm" ELSE "xen"
                /\ g.machines = IF a.hvm = 1 THEN <<"xenfv">> ELSE <<"xenpv">>
                /\ g.loader = IF a.hvm = 1 THEN "LIBXL_FIRMWARE_DIR/hvmloader" ELSE ""
                /\ g.domains = <<"xen">>
                /\ IF a.pae = 1 THEN HasFeature(g, Feature("pae", 1, 0))
                   ELSE Lacks(g, "pae")
                /\ IF a.nonpae = 1 THEN HasFeature(g, Feature("nonpae", 1, 0))
                   ELSE Lacks(g, "nonpae")
                /\ IF a.ia64_be = 1 THEN HasFeature(g, Feature("ia64_be", 1, 0))
                   ELSE Lacks(g, "ia64_be")
                /\ IF a.hvm = 1
                   THEN /\ HasFeature(g, Feature("acpi", 1, 1))
                        /\ HasFeature(g, Feature("apic", 1, 0))
                        /\ HasFeature(g, Feature("hap", 1, 1))
                   ELSE Lacks(g, "acpi") /\ Lacks(g, "apic") /\ Lacks(g, "hap")
                /\ \A j \in DOMAIN g.features :
                        g.features[j].name
                            \in {"pae", "nonpae", "ia64_be", "acpi", "apic", "hap"}

\* C6 witness: the parser succeeded on the example string; the first guest is
\* the PV x86_32 one with "pae" and "nonpae", the second the HVM x86_64 one
C6_Witness ==
    /\ GuestsSucceeded
    /\ ctx.version_info.capabilities = ExampleString
    /\ Len(caps.guests) = 2
    /\ caps.guests[1].ostype = "xen" /\ Len(caps.guests[1].features) = 2
    /\ caps.guests[2].ostype = "hvm" /\ Len(caps.guests[2].features) = 3

StringPresent == ctx.version_info.ok /\ ctx.version_info.has_caps

\* no token of the string has the pattern in it
NothingMatches ==
    \A t \in Range(Tokens(ctx.version_info.capabilities)) : ~TokenMatches(t)

\* C9 as claimed: with the version info or the capability string missing the
\* parser fails and adds no guest; with the string present and empty or with
\* non-matching tokens only, it succeeds and adds no guest.
C9_AsClaimed ==
    pc = "guests_ret" =>
        /\ ~StringPresent => (ret = -1 /\ caps.guests = <<>>)
        /\ (StringPresent /\ NothingMatches) => (ret = 0 /\ caps.guests = <<>>)

\* C9 as amended: with the version info or the capability string missing the
\* parser fails and adds no guest; with the string present and empty or with
\* non-matching tokens only, it adds no guest, and it succeeds unless regcomp
\* failed, and then it fails.
C9_MissingVersusEmpty ==
    pc = "guests_ret" =>
        /\ ~StringPresent => (ret = -1 /\ caps.guests = <<>>)
        /\ (StringPresent /\ NothingMatches) =>
                /\ caps.guests = <<>>
                /\ ret = IF regex = "failed" THEN -1 ELSE 0

\* C9 witness: the parser succeeded with no guest on a present string whose
\* tokens, of which there is one at least, do not match
C9_Witness ==
    /\ GuestsSucceeded
    /\ StringPresent /\ NothingMatches
    /\ Len(seen) >= 1
    /\ caps.guests = <<>>

\* the pattern matches the token from its first to its last character
FullMatch(token) == MatchAt(token, 0).ok /\ MatchAt(token, 0).eo = Len(token)

\* C10: a token was merged into guest_archs only if the whole token matches
\* the grammar, and it set the non-PAE flag only if it has no suffix.
C10_OnlyWholeTokens ==
    \A j \in DOMAIN seen :
        seen[j].used =>
            /\ FullMatch(seen[j].token)
            /\ seen[j].decoded.nonpae = 1 => MatchAt(seen[j].token, 0).so[4] = -1

-----------------------------------------------------------------------------
(* Properties of libxlMakeCapabilities, checked under Spec *)

BuilderOrder == <<"host", "numa", "guests">>

AllSucceeded == Len(ran) = 3 /\ \A k \in DOMAIN ran : ran[k].ret = "ok"

\* C1: the builders are entered in the order host, NUMA, guests, each only
\* after every earlier one succeeded; when libxlMakeCapabilities is done it
\* returned the object, still live, if and only if all three succeeded, and
\* otherwise it returned NULL and, had it made an object, the object is
\* released with the cells and guests attached to it: no CPU list and no
\* bitmap of a cell is left allocated.
C1_AssemblyAllOrNothing ==
    /\ Len(ran) <= 3
    /\ \A k \in DOMAIN ran :
        /\ ran[k].step = BuilderOrder[k]
        /\ k < Len(ran) => ran[k].ret = "ok"
    /\ ran # <<>> => caps.st # "none"
    /\ pc = "done" =>
        /\ result \in {"caps", "NULL"}
        /\ (result = "caps") = AllSucceeded
        /\ result = "caps" => caps.st = "live"
        /\ result = "NULL" =>
            /\ caps.st \in {"none", "released"}
            /\ caps.st = "none" => ran = <<>>
            /\ caps.cells = <<>> /\ caps.guests = <<>>
            /\ \A n \in DOMAIN lists : lists[n].st # "cell"
            /\ \A c \in DOMAIN bitmaps : bitmaps[c].st # "cell"

\* C1 witness: the guest parser failed at its second entry, after the NUMA
\* builder had attached a cell with a CPU list; the object was released, the
\* list with it, and NULL returned
C1_Witness ==
    /\ pc = "done"
    /\ result = "NULL"
    /\ Len(ran) = 3 /\ ran[3].ret = "failed"
    /\ caps.st = "released"
    /\ i = 1 /\ Len(guest_archs) = 2
    /\ \E n \in DOMAIN lists : lists[n].st = "freed"

-----------------------------------------------------------------------------
(* Properties of libxlDomainGetEmulatorType, checked under SpecEmu *)

\* C8: the function returns one of the two versions; it returns the
\* traditional one exactly when the guest is HVM, the emulator is set, the file
\* exists, the run succeeds and the output holds the marker; for a guest that
\* is not HVM virFileExists is not called and nothing is run; virFileExists is
\* called once at most, and the emulator is run once at most, and only after
\* virFileExists was called and answered true.
C8_EmulatorType ==
    /\ emu.runs > 0 => (emu.stats = 1 /\ def.exists /\ def.os_type = "hvm")
    /\ emu.stats <= 1 /\ emu.runs <= 1
    /\ def.os_type # "hvm" => (emu.stats = 0 /\ emu.runs = 0)
    /\ pc = "emu_ret" =>
        /\ emu.ret \in {"QEMU_XEN", "QEMU_XEN_TRADITIONAL"}
        /\ (emu.ret = "QEMU_XEN_TRADITIONAL") =
                (/\ def.os_type = "hvm"
                 /\ def.emulator
                 /\ def.exists
                 /\ def.run = "ok"
                 /\ \E off \in 0..(Len(def.output) - 36) :
                        \A k \in 1..36 : def.output[off + k] = LIBXL_QEMU_DM_STR[k])

\* C8 witness: an HVM guest whose emulator printed the marker and exited with
\* a status that is not 0: the default version is returned
C8_Witness ==
    /\ pc = "emu_ret"
    /\ def.os_type = "hvm" /\ def.emulator /\ def.exists
    /\ def.run = "exit_nonzero"
    /\ def.output = Help_traditional
    /\ emu.runs = 1
    /\ emu.ret = "QEMU_XEN"

====
